---- MODULE Spec2Model ----
(***************************************************************************)
(* Flight physics and collision response of the drone simulator           *)
(* (src/components/Drone.tsx), with the App state its callbacks write     *)
(* (src/unnamed/part_000).                                                *)
(*                                                                         *)
(* Numbers.  A JavaScript number is modelled in fixed point: the integer  *)
(* n stands for n/Unit, so lengths are in millimetres-of-a-world-unit,    *)
(* times in milliseconds, angles in milliradians.  A product is rounded   *)
(* toward zero to the nearest 1/Unit.  NaN is a value of its own: every   *)
(* arithmetic operation on it yields NaN and every comparison with it is  *)
(* false, as in IEEE 754.                                                  *)
(***************************************************************************)
EXTENDS Integers, Sequences, FiniteSets, TLC

Unit == 1000
NaN == -2000000000

\* ---------------------------------------------------------------- bounds
MaxFrames == 2
MaxKeyEvents == 1
MaxRequests == 3

\* ------------------------------------------------------- physics constants
GRAVITY == 25000
THRUST_POWER == 65000
DRAG == 980
ROTATION_SPEED == 2500
TILT_SPEED == 3000
MAX_TILT == 600
HOVER_THROTTLE == 400
DRONE_RADIUS == 500
PROP_COLLISION_RADIUS == 150
THROTTLE_RESPONSE_SPEED == 2000
PROP_OFFSETS ==
  << [x |-> 800, y |-> 0, z |-> 800], [x |-> -800, y |-> 0, z |-> 800],
     [x |-> 800, y |-> 0, z |-> -800], [x |-> -800, y |-> 0, z |-> -800] >>

\* The literals of the frame callback.
MAX_DT == 100                 \* Math.min(delta, 0.1)
GROUND_CLEARANCE == 500       \* nextPosition.y < 0.5
GROUND_DAMPING == 800         \* velocity.x *= 0.8
HARD_LANDING_SPEED == 10000   \* Math.abs(velocity.y) > 10
PROP_GROUND_CLEARANCE == 100  \* p.y < 0.1
CRASH_FLOOR == 200            \* position.y < 0.2
TREE_RADIUS == 1500           \* 1.5 + radius
PUSHBACK_DISTANCE == 1500     \* normalize().multiplyScalar(1.5)
PUSHBACK_MIN_SPEED_SQ == 100  \* velocity.lengthSq() > 0.1
STATIC_NUDGE == 500           \* position.y += 0.5
CAPTURE_RADIUS == 4000        \* distanceToObj < 4.0
STATS_PERIOD == 100           \* now - lastStatsUpdate > 0.1
TAKEOFF_ALTITUDE == 1000      \* position.y < 1.0
TAKEOFF_MARGIN == 50          \* HOVER_THROTTLE + 0.05
TAKEOFF_RATE == 3000          \* dt * 3
AUTOLEVEL_RATE == 5000        \* dt * 5
FLYING_BATTERY == 85          \* battery: 85

\* ------------------------------------------------------------- arithmetic
Min(a, b) == IF a < b THEN a ELSE b
Max(a, b) == IF a > b THEN a ELSE b
Abs(a) == IF a < 0 THEN -a ELSE a

\* a * b of two fixed-point numbers, rounded toward zero.
Mul(a, b) ==
  LET p == a * b
  IN  IF p >= 0 THEN p \div Unit ELSE -((-p) \div Unit)

\* NaN-propagating arithmetic on position and velocity components.
FAdd(a, b) == IF a = NaN \/ b = NaN THEN NaN ELSE a + b
FSub(a, b) == IF a = NaN \/ b = NaN THEN NaN ELSE a - b
FMul(a, b) == IF a = NaN \/ b = NaN THEN NaN ELSE Mul(a, b)
FAbs(a) == IF a = NaN THEN NaN ELSE Abs(a)
FLt(a, b) == a # NaN /\ b # NaN /\ a < b
FGt(a, b) == a # NaN /\ b # NaN /\ a > b
isNaN(a) == a = NaN

\* Math.sqrt on a non-negative integer: the floor of the root (Newton).
RECURSIVE SqrtIter(_, _)
SqrtIter(n, g) ==
  LET h == (g + n \div g) \div 2
  IN  IF h >= g THEN g ELSE SqrtIter(n, h)

Sqrt(n) == IF n <= 0 THEN 0 ELSE SqrtIter(n, Min(n, 46340))

\* Math.sqrt of a fixed-point number q (q/Unit^2 is what was squared):
\* the result is again in 1/Unit.
FSqrt(q) == IF q = NaN THEN NaN ELSE Sqrt(q)

\* THREE.MathUtils.lerp(x, y, t) = (1 - t) * x + t * y
lerp(x, y, t) == Mul(Unit - t, x) + Mul(t, y)

\* ----------------------------------------------------------- trigonometry
PI == 3142

\* sin on [-PI/2, PI/2] by its Taylor polynomial to the 7th power.
SinPoly(a) ==
  LET a2 == Mul(a, a)
      t3 == Mul(a, a2) \div 6
      t5 == Mul(t3, a2) \div 20
      t7 == Mul(t5, a2) \div 42
  IN  a - t3 + t5 - t7

\* The angle brought into (-PI, PI].
WrapAngle(a) ==
  LET m == a % (2 * PI)
  IN  IF m > PI THEN m - 2 * PI ELSE m

Sin(a) ==
  LET w == WrapAngle(a)
  IN  IF w > PI \div 2 THEN SinPoly(PI - w)
      ELSE IF w < -(PI \div 2) THEN SinPoly(-PI - w)
      ELSE SinPoly(w)

Cos(a) == Sin(a + PI \div 2)

\* ---------------------------------------------------------------- vectors
Vec(a, b, c) == [x |-> a, y |-> b, z |-> c]
ZeroVec == Vec(0, 0, 0)

\* Vector3.add, Vector3.sub, Vector3.multiplyScalar
VAdd(u, v) == Vec(FAdd(u.x, v.x), FAdd(u.y, v.y), FAdd(u.z, v.z))
VSub(u, v) == Vec(FSub(u.x, v.x), FSub(u.y, v.y), FSub(u.z, v.z))
VScale(u, k) == Vec(FMul(u.x, k), FMul(u.y, k), FMul(u.z, k))

\* Vector3.lengthSq, in 1/Unit^2
LengthSq(u) ==
  IF u.x = NaN \/ u.y = NaN \/ u.z = NaN THEN NaN
  ELSE u.x * u.x + u.y * u.y + u.z * u.z

\* Vector3.normalize: divideScalar(length() || 1)
Normalize(u) ==
  LET len == FSqrt(LengthSq(u))
      d == IF len = 0 THEN Unit ELSE len
  IN  IF len = NaN THEN Vec(NaN, NaN, NaN)
      ELSE Vec((u.x * Unit) \div d, (u.y * Unit) \div d, (u.z * Unit) \div d)

\* Vector3.distanceTo
DistanceTo(u, v) == FSqrt(LengthSq(VSub(u, v)))

\* The rotation of Quaternion.setFromEuler(rotation) with order 'YXZ':
\* roll about z first, then pitch about x, then yaw about y.
Trig(rot) ==
  [sx |-> Sin(rot.x), cx |-> Cos(rot.x),
   sy |-> Sin(rot.y), cy |-> Cos(rot.y),
   sz |-> Sin(rot.z), cz |-> Cos(rot.z)]

\* Vector3.applyQuaternion(quat) of a body-frame vector (never NaN).
ApplyQuaternion(v, q) ==
  LET x1 == Mul(v.x, q.cz) - Mul(v.y, q.sz)
      y1 == Mul(v.x, q.sz) + Mul(v.y, q.cz)
      z1 == v.z
      y2 == Mul(y1, q.cx) - Mul(z1, q.sx)
      z2 == Mul(y1, q.sx) + Mul(z1, q.cx)
      x3 == Mul(x1, q.cy) + Mul(z2, q.sy)
      z3 == Mul(z2, q.cy) - Mul(x1, q.sy)
  IN  Vec(x3, y2, z3)

\* ------------------------------------------------------------------ world
\* The obstacle list App generates once (useMemo) and the objective it derives
\* from an obstacle.  One building and one tree, placed as the generator
\* places them: a building rests on the ground outside the spawn square
\* (|x| >= 20 or |z| >= 20), a tree stands at y = 0 outside |x|,|z| < 15
\* with the fixed size [1.5, 4, 1.5].
Building == [type |-> "building", position |-> Vec(24000, 4000, 0),
             size |-> Vec(6000, 8000, 6000)]
Tree == [type |-> "tree", position |-> Vec(0, 0, 16000),
         size |-> Vec(1500, 4000, 1500)]
obstacles == << Building, Tree >>

\* objectivePos: null, or the target handleMissionStart computes.
NoObjective == [set |-> FALSE, x |-> 0, y |-> 0, z |-> 0]
TargetOf(obs) ==
  [set |-> TRUE, x |-> obs.position.x, y |-> obs.size.y + 5000,
   z |-> obs.position.z]

\* The missions generateMission resolves to: the parsed response, whose
\* difficulty the response schema restricts to the three levels, or the
\* fallback its catch returns.  activeMission is null before the first.
Levels == {"Easy", "Medium", "Hard"}
NoMission == [id |-> "null", difficulty |-> "null"]
ParsedMission(d) == [id |-> "generated", difficulty |-> d]
FallbackMission == [id |-> "fallback-001", difficulty |-> "Easy"]

\* ------------------------------------------------------------------ state
VARIABLES
  position,         \* position.current
  velocity,         \* velocity.current
  rotation,         \* rotation.current (Euler x = pitch, y = yaw, z = roll)
  throttle,         \* throttle.current
  isCrashed,        \* isCrashed.current
  lastStatsUpdate,  \* lastStatsUpdate.current
  keys,             \* the codes k with keys.current[k] === true
  now,              \* state.clock.elapsedTime
  objectivePos,     \* App state objectivePos (prop objectivePosition)
  missionComplete,  \* App state missionComplete
  fr,               \* history: what the last frame callback did
  calls,            \* history: the onUpdateStats calls made so far
  nframes,          \* history: frames run
  nkeys,            \* history: key events handled
  loading,          \* MissionControl state loading
  isOpen,           \* MissionControl state isOpen
  pending,          \* generateMission calls not yet settled (their difficulty)
  activeMission,    \* App state activeMission
  nrequests,        \* history: generateMission calls made
  nstarts           \* history: onMissionStart calls made

panelVars == << loading, isOpen, pending, activeMission, nrequests, nstarts >>

vars == << position, velocity, rotation, throttle, isCrashed, lastStatsUpdate,
           keys, now, objectivePos, missionComplete, fr, calls, nframes,
           nkeys, loading, isOpen, pending, activeMission, nrequests, nstarts >>

\* Key codes the keyboard sends in the model.
KeyCodes == {"ArrowUp", "ArrowDown", "ArrowLeft", "ArrowRight",
             "KeyW", "KeyS", "KeyA", "KeyD"}

\* Frame deltas the clock supplies (ms): a repeated timestamp, a 20 Hz frame,
\* and a stall longer than the clamp.
Deltas == {0, 50, 150}

\* ------------------------------------------------------------ input flags
YawLeft(k) == "ArrowLeft" \in k \/ "KeyQ" \in k
YawRight(k) == "ArrowRight" \in k \/ "KeyE" \in k
ThrottleUp(k) == "ArrowUp" \in k \/ "Space" \in k
ThrottleDown(k) == "ArrowDown" \in k \/ "ShiftLeft" \in k \/ "ShiftRight" \in k
isMovingInput(k) == "KeyW" \in k \/ "KeyS" \in k \/ "KeyA" \in k \/ "KeyD" \in k

\* ------------------------------------------------- the frame callback, parts
\* Variant of ClampDt that uses the frame delta as it comes.
ClampDt_Unclamped(delta) == delta

\* const dt = Math.min(delta, 0.1)
ClampDt(delta) == Min(delta, MAX_DT)

\* Safety: Prevent NaN propagation
GuardPosition(p) == IF isNaN(p.x) THEN Vec(0, 5000, 0) ELSE p
GuardVelocity(v) == IF isNaN(v.x) THEN ZeroVec ELSE v

\* Variant of StatsDue with a 10 ms period (a slipped decimal).
StatsDue_Short(t, last) == t - last > STATS_PERIOD \div 10

\* The stats gate: now - lastStatsUpdate.current > 0.1
StatsDue(t, last) == t - last > STATS_PERIOD

\* Variant of CrashedFall whose floor clamp leaves the velocity as it is.
CrashedFall_NoStop(p, v, dt) ==
  LET v1 == [v EXCEPT !.y = FSub(v.y, Mul(GRAVITY, dt))]
      p1 == VAdd(p, VScale(v1, dt))
  IN  IF FLt(p1.y, CRASH_FLOOR)
      THEN [position |-> [p1 EXCEPT !.y = CRASH_FLOOR], velocity |-> v1]
      ELSE [position |-> p1, velocity |-> v1]

\* Crashed branch: simple fall physics and floor collision.
CrashedFall(p, v, dt) ==
  LET v1 == [v EXCEPT !.y = FSub(v.y, Mul(GRAVITY, dt))]
      p1 == VAdd(p, VScale(v1, dt))
  IN  IF FLt(p1.y, CRASH_FLOOR)
      THEN [position |-> [p1 EXCEPT !.y = CRASH_FLOOR], velocity |-> ZeroVec]
      ELSE [position |-> p1, velocity |-> v1]

\* Yaw
YawInput(yaw, k, dt) ==
  LET y1 == IF YawLeft(k) THEN yaw + Mul(ROTATION_SPEED, dt) ELSE yaw
  IN  IF YawRight(k) THEN y1 - Mul(ROTATION_SPEED, dt) ELSE y1

\* Variant of ThrottleInput without the clamp to [0, 1].
ThrottleInput_Unclamped(th, k, dt) ==
  IF ThrottleUp(k) THEN th + Mul(dt, THROTTLE_RESPONSE_SPEED)
  ELSE IF ThrottleDown(k) THEN th - Mul(dt, THROTTLE_RESPONSE_SPEED)
  ELSE th

\* Throttle
ThrottleInput(th, k, dt) ==
  IF ThrottleUp(k) THEN Min(th + Mul(dt, THROTTLE_RESPONSE_SPEED), Unit)
  ELSE IF ThrottleDown(k) THEN Max(th - Mul(dt, THROTTLE_RESPONSE_SPEED), 0)
  ELSE th

\* Variant of TargetPitch with the two tests in the other order (W wins).
TargetPitch_ForwardWins(k) ==
  LET t1 == IF "KeyS" \in k THEN MAX_TILT ELSE 0
  IN  IF "KeyW" \in k THEN -MAX_TILT ELSE t1

\* Pitch & Roll targets
TargetPitch(k) ==
  LET t1 == IF "KeyW" \in k THEN -MAX_TILT ELSE 0
  IN  IF "KeyS" \in k THEN MAX_TILT ELSE t1

TargetRoll(k) ==
  LET t1 == IF "KeyD" \in k THEN -MAX_TILT ELSE 0
  IN  IF "KeyA" \in k THEN MAX_TILT ELSE t1

\* Takeoff Assist
TakeoffAssist(th, k, y, dt) ==
  IF isMovingInput(k) /\ FLt(y, TAKEOFF_ALTITUDE) /\ th < HOVER_THROTTLE
  THEN lerp(th, HOVER_THROTTLE + TAKEOFF_MARGIN, Mul(dt, TAKEOFF_RATE))
  ELSE th

\* Variant of Integrate that integrates over a fixed step instead of dt.
Integrate_FixedStep(v, q, th, dt) ==
  LET upVector == ApplyQuaternion(Vec(0, Unit, 0), q)
      thrustForce == VScale(upVector, Mul(th, THRUST_POWER))
      acceleration == VAdd(thrustForce, Vec(0, -GRAVITY, 0))
  IN  VScale(VAdd(v, VScale(acceleration, MAX_DT)), DRAG)

\* 2. Physics Calculation: thrust along the body's up axis plus gravity,
\* integrated into the velocity, then drag.
Integrate(v, q, th, dt) ==
  LET upVector == ApplyQuaternion(Vec(0, Unit, 0), q)
      thrustForce == VScale(upVector, Mul(th, THRUST_POWER))
      acceleration == VAdd(thrustForce, Vec(0, -GRAVITY, 0))
  IN  VScale(VAdd(v, VScale(acceleration, dt)), DRAG)

\* Variant of GroundPhysics that clamps the altitude and keeps the vertical
\* velocity.
GroundPhysics_KeepVy(np, v, rot, k, dt) ==
  IF FLt(np.y, GROUND_CLEARANCE)
  THEN [contact |-> TRUE, nextPosition |-> [np EXCEPT !.y = GROUND_CLEARANCE],
        velocity |-> Vec(FMul(v.x, GROUND_DAMPING), v.y, FMul(v.z, GROUND_DAMPING)),
        rotation |-> rot, hard |-> FGt(FAbs(v.y), HARD_LANDING_SPEED)]
  ELSE [contact |-> FALSE, nextPosition |-> np, velocity |-> v, rotation |-> rot,
        hard |-> FALSE]

\* 3a. Ground Physics (centre body): the clamp, the damping, the auto-level
\* and the hard landing check, which reads velocity.current.y after it was
\* set to 0.
GroundPhysics(np, v, rot, k, dt) ==
  IF FLt(np.y, GROUND_CLEARANCE)
  THEN LET v1 == Vec(FMul(v.x, GROUND_DAMPING), 0, FMul(v.z, GROUND_DAMPING))
           r1 == IF ~isMovingInput(k)
                 THEN [rot EXCEPT !.x = lerp(rot.x, 0, Mul(dt, AUTOLEVEL_RATE)),
                                  !.z = lerp(rot.z, 0, Mul(dt, AUTOLEVEL_RATE))]
                 ELSE rot
       IN  [contact |-> TRUE, nextPosition |-> [np EXCEPT !.y = GROUND_CLEARANCE],
            velocity |-> v1, rotation |-> r1,
            hard |-> FGt(FAbs(v1.y), HARD_LANDING_SPEED)]
  ELSE [contact |-> FALSE, nextPosition |-> np, velocity |-> v, rotation |-> rot,
        hard |-> FALSE]

\* 3b. Propeller world positions
PropPoints(q, np) ==
  [i \in 1..4 |-> VAdd(ApplyQuaternion(PROP_OFFSETS[i], q), np)]

\* Variant of PropGroundHit that looks at the first propeller only.
PropGroundHit_FirstOnly(props) == FLt(props[1].y, PROP_GROUND_CLEARANCE)

\* 3c. Propeller ground check
PropGroundHit(props) == \E i \in 1..4 : FLt(props[i].y, PROP_GROUND_CLEARANCE)

\* 3d. The points checked against obstacles: centre + 4 props
CheckPoints(np, props) ==
  << [point |-> np, radius |-> DRONE_RADIUS] >> \o
  [i \in 1..4 |-> [point |-> props[i], radius |-> PROP_COLLISION_RADIUS]]

\* AABB collision with margin equal to the point radius
HitsBuilding(point, radius, obs) ==
  LET halfW == obs.size.x \div 2 + radius
      halfH == obs.size.y \div 2 + radius
      halfD == obs.size.z \div 2 + radius
      dx == FAbs(FSub(point.x, obs.position.x))
      dy == FAbs(FSub(point.y, obs.position.y))
      dz == FAbs(FSub(point.z, obs.position.z))
  IN  FLt(dx, halfW) /\ FLt(dy, halfH) /\ FLt(dz, halfD)

\* Variant of HitsTree without the height bound.
HitsTree_NoHeight(point, radius, obs) ==
  LET ox == FSub(point.x, obs.position.x)
      oz == FSub(point.z, obs.position.z)
      dist == IF ox = NaN \/ oz = NaN THEN NaN ELSE Sqrt(ox * ox + oz * oz)
  IN  FLt(dist, TREE_RADIUS + radius)

\* Tree collision (cylinder): point radius added to the tree radius
HitsTree(point, radius, obs) ==
  LET treeRadius == TREE_RADIUS + radius
      ox == FSub(point.x, obs.position.x)
      oz == FSub(point.z, obs.position.z)
      dist == IF ox = NaN \/ oz = NaN THEN NaN ELSE Sqrt(ox * ox + oz * oz)
  IN  FLt(dist, treeRadius) /\ FLt(point.y, obs.size.y)

Hits(cp, obs) ==
  IF obs.type = "building" THEN HitsBuilding(cp.point, cp.radius, obs)
  ELSE HitsTree(cp.point, cp.radius, obs)

ObstacleHit(np, props) ==
  \E cps \in {CheckPoints(np, props)} :
  \E o \in 1..Len(obstacles) : \E c \in 1..5 :
    Hits(cps[c], obstacles[o])

\* Variant of Pushback that moves along the velocity instead of against it.
Pushback_Forward(p, v) ==
  IF FGt(LengthSq(v), PUSHBACK_MIN_SPEED_SQ * Unit)
  THEN VAdd(p, VScale(Normalize(v), PUSHBACK_DISTANCE))
  ELSE [p EXCEPT !.y = FAdd(p.y, STATIC_NUDGE)]

\* Variant of Pushback that subtracts the velocity scaled by 1.5 without
\* normalising it.
Pushback_Unnormalized(p, v) ==
  IF FGt(LengthSq(v), PUSHBACK_MIN_SPEED_SQ * Unit)
  THEN VSub(p, VScale(v, PUSHBACK_DISTANCE))
  ELSE [p EXCEPT !.y = FAdd(p.y, STATIC_NUDGE)]

\* Pushback, computed before the velocity is zeroed
Pushback(p, v) ==
  IF FGt(LengthSq(v), PUSHBACK_MIN_SPEED_SQ * Unit)
  THEN VSub(p, VScale(Normalize(v), PUSHBACK_DISTANCE))
  ELSE [p EXCEPT !.y = FAdd(p.y, STATIC_NUDGE)]

\* Variant of DistanceToObjective that measures in the horizontal plane only.
DistanceToObjective_Horizontal(p, obj) ==
  IF obj.set THEN DistanceTo(Vec(p.x, obj.y, p.z), Vec(obj.x, obj.y, obj.z)) ELSE -1

\* 4. Objective logic: the distance, null without an objective (-1 here)
DistanceToObjective(p, obj) ==
  IF obj.set THEN DistanceTo(p, Vec(obj.x, obj.y, obj.z)) ELSE -1

ObjectiveReached(p, obj) ==
  obj.set /\ FLt(DistanceToObjective(p, obj), CAPTURE_RADIUS)

\* The argument of an onUpdateStats call (position, velocity and rotation
\* are passed by reference to the live vectors and are not copied here).
CrashedStats == [throttle |-> 0, battery |-> 0, status |-> "CRASHED", distanceToObjective |-> -1]
\* Variant of FlyingStats that reports LANDED at zero throttle.
FlyingStats_Landed(th, d) ==
  [throttle |-> th, battery |-> FLYING_BATTERY,
   status |-> IF th = 0 THEN "LANDED" ELSE "FLYING", distanceToObjective |-> d]

FlyingStats(th, d) ==
  [throttle |-> th, battery |-> FLYING_BATTERY, status |-> "FLYING", distanceToObjective |-> d]

\* App.handleObjectiveReached: if (!missionComplete) setMissionComplete(true)
handleObjectiveReached(mc) == IF ~mc THEN TRUE ELSE mc

\* --------------------------------------------------- the frame callback, whole
\* One onUpdateStats call as the history keeps it.
Call(stats, t, gated) == [stats |-> stats, at |-> t, gated |-> gated]

\* What the history keeps of a frame.
Report(delta, flag, transition, g, candY, impactVy, props, p0, stats, reached) ==
  [n |-> nframes + 1, delta |-> delta, dt |-> ClampDt(delta), keys |-> keys,
   wasCrashed |-> isCrashed, prevDelta |-> fr.delta, prevKeys |-> fr.keys,
   flag |-> flag, transition |-> transition, contact |-> g.contact,
   candY |-> candY, impactVy |-> impactVy, cand |-> g.nextPosition,
   props |-> props, from |-> p0, vcrash |-> g.velocity, stats |-> stats,
   reached |-> reached, reachedTotal |-> fr.reachedTotal + reached,
   th0 |-> throttle]

NoGround == [contact |-> FALSE, nextPosition |-> ZeroVec, velocity |-> ZeroVec]

\* Variant of CrashedFrame that clears the crash flag once the wreck is at rest.
CrashedFrame_Revive(p0, v0, dt, t, delta) ==
  \E f \in {CrashedFall(p0, v0, dt)}, due \in {StatsDue(t, lastStatsUpdate)} :
  \E stats \in {IF due THEN << Call(CrashedStats, t, TRUE) >> ELSE << >>} :
    /\ position' = f.position
    /\ velocity' = f.velocity
    /\ isCrashed' = (f.velocity # ZeroVec)
    /\ lastStatsUpdate' = IF due THEN t ELSE lastStatsUpdate
    /\ calls' = calls \o stats
    /\ fr' = Report(delta, "none", FALSE, NoGround, 0, 0,
                    PropPoints(Trig(ZeroVec), ZeroVec), p0, stats, 0)
    /\ UNCHANGED << rotation, throttle, missionComplete >>

\* Variant of CrashedFrame that does not return early from the objective logic.
CrashedFrame_Signals(p0, v0, dt, t, delta) ==
  \E f \in {CrashedFall(p0, v0, dt)}, due \in {StatsDue(t, lastStatsUpdate)} :
  \E stats \in {IF due THEN << Call(CrashedStats, t, TRUE) >> ELSE << >>},
     reached \in {IF ObjectiveReached(f.position, objectivePos) THEN 1 ELSE 0} :
    /\ position' = f.position
    /\ velocity' = f.velocity
    /\ lastStatsUpdate' = IF due THEN t ELSE lastStatsUpdate
    /\ calls' = calls \o stats
    /\ missionComplete' = IF reached > 0 THEN handleObjectiveReached(missionComplete)
                          ELSE missionComplete
    /\ fr' = Report(delta, "none", FALSE, NoGround, 0, 0,
                    PropPoints(Trig(ZeroVec), ZeroVec), p0, stats, reached)
    /\ UNCHANGED << rotation, throttle, isCrashed >>

\* The callback while isCrashed.current holds (it returns early).
CrashedFrame(p0, v0, dt, t, delta) ==
  \E f \in {CrashedFall(p0, v0, dt)}, due \in {StatsDue(t, lastStatsUpdate)} :
  \E stats \in {IF due THEN << Call(CrashedStats, t, TRUE) >> ELSE << >>} :
    /\ position' = f.position
    /\ velocity' = f.velocity
    /\ lastStatsUpdate' = IF due THEN t ELSE lastStatsUpdate
    /\ calls' = calls \o stats
    /\ fr' = Report(delta, "none", FALSE, NoGround, 0, 0,
                    PropPoints(Trig(ZeroVec), ZeroVec), p0, stats, 0)
    /\ UNCHANGED << rotation, throttle, isCrashed, missionComplete >>

\* The crash transition: pushback, velocity zeroed, immediate UI update.
CrashTransition(p0, g, th, t, delta, flag, candY, impactVy, props) ==
  \E stats \in {<< Call(CrashedStats, t, FALSE) >>} :
    /\ position' = Pushback(p0, g.velocity)
    /\ velocity' = ZeroVec
    /\ rotation' = g.rotation
    /\ throttle' = th
    /\ isCrashed' = TRUE
    /\ calls' = calls \o stats
    /\ fr' = Report(delta, flag, TRUE, g, candY, impactVy, props, p0, stats, 0)
    /\ UNCHANGED << lastStatsUpdate, missionComplete >>

\* No crash transition: the candidate is committed, then the objective logic
\* and the throttled UI update.
Commit(p0, g, th, t, delta, flag, candY, impactVy, props) ==
  \E d \in {DistanceToObjective(g.nextPosition, objectivePos)},
     due \in {StatsDue(t, lastStatsUpdate)},
     reached \in {IF ObjectiveReached(g.nextPosition, objectivePos) THEN 1 ELSE 0} :
  \E stats \in {IF due THEN << Call(FlyingStats(th, d), t, TRUE) >> ELSE << >>} :
    /\ position' = g.nextPosition
    /\ velocity' = g.velocity
    /\ rotation' = g.rotation
    /\ throttle' = th
    /\ isCrashed' = g.hard
    /\ missionComplete' = IF reached > 0 THEN handleObjectiveReached(missionComplete)
                          ELSE missionComplete
    /\ lastStatsUpdate' = IF due THEN t ELSE lastStatsUpdate
    /\ calls' = calls \o stats
    /\ fr' = Report(delta, flag, FALSE, g, candY, impactVy, props, p0, stats, reached)

\* 3. Collision detection, after the ground physics: the flag, and
\* if (collision && !isCrashed.current), where the hard landing check has
\* already set isCrashed.current when it flags.
Resolve(p0, g, th, t, delta, candY, impactVy, props) ==
  \E propHit \in {~g.hard /\ PropGroundHit(props)} :
  \E obsHit \in {~g.hard /\ ~propHit /\ ObstacleHit(g.nextPosition, props)} :
  \E flag \in {IF g.hard THEN "hard" ELSE IF propHit THEN "prop"
               ELSE IF obsHit THEN "obstacle" ELSE "none"} :
    IF (g.hard \/ propHit \/ obsHit) /\ ~g.hard
    THEN CrashTransition(p0, g, th, t, delta, flag, candY, impactVy, props)
    ELSE Commit(p0, g, th, t, delta, flag, candY, impactVy, props)

\* The callback while flying.
FlyingFrame(p0, v0, dt, t, delta) ==
  \E th \in {TakeoffAssist(ThrottleInput(throttle, keys, dt), keys, p0.y, dt)},
     rot1 \in {[x |-> lerp(rotation.x, TargetPitch(keys), Mul(dt, TILT_SPEED)),
                y |-> YawInput(rotation.y, keys, dt),
                z |-> lerp(rotation.z, TargetRoll(keys), Mul(dt, TILT_SPEED))]} :
  \E quat \in {Trig(rot1)} :
  \E v1 \in {Integrate(v0, quat, th, dt)} :
  \E np0 \in {VAdd(p0, VScale(v1, dt))} :
  \E g \in {GroundPhysics(np0, v1, rot1, keys, dt)} :
  \E props \in {PropPoints(quat, g.nextPosition)} :
    Resolve(p0, g, th, t, delta, np0.y, v1.y, props)

\* ---------------------------------------------------------------- actions
\* handleKeyDown: keys.current[e.code] = true (a repeat of a held key changes
\* nothing and is left out).
KeyDown(c) ==
  /\ nkeys < MaxKeyEvents
  /\ c \notin keys
  /\ keys' = keys \cup {c}
  /\ nkeys' = nkeys + 1
  /\ UNCHANGED << position, velocity, rotation, throttle, isCrashed,
                  lastStatsUpdate, now, objectivePos, missionComplete, fr,
                  calls, nframes >>
  /\ UNCHANGED panelVars

\* handleKeyUp: keys.current[e.code] = false
KeyUp(c) ==
  /\ nkeys < MaxKeyEvents
  /\ c \in keys
  /\ keys' = keys \ {c}
  /\ nkeys' = nkeys + 1
  /\ UNCHANGED << position, velocity, rotation, throttle, isCrashed,
                  lastStatsUpdate, now, objectivePos, missionComplete, fr,
                  calls, nframes >>
  /\ UNCHANGED panelVars

\* One run of the useFrame callback, the clock having advanced by delta
\* (droneRef.current is set once the group is mounted, before any frame).
Frame(delta) ==
  /\ nframes < MaxFrames
  /\ \E dt \in {ClampDt(delta)}, t \in {now + delta},
        p0 \in {GuardPosition(position)}, v0 \in {GuardVelocity(velocity)} :
       IF isCrashed THEN CrashedFrame(p0, v0, dt, t, delta)
       ELSE FlyingFrame(p0, v0, dt, t, delta)
  /\ now' = now + delta
  /\ nframes' = nframes + 1
  /\ UNCHANGED << keys, objectivePos, nkeys >>
  /\ UNCHANGED panelVars

\* ------------------------------------------------------------- initial states
\* No frame has run.
NoFrame ==
  [n |-> 0, delta |-> -1, dt |-> 0, keys |-> {}, wasCrashed |-> FALSE,
   prevDelta |-> -1, prevKeys |-> {}, flag |-> "none", transition |-> FALSE,
   contact |-> FALSE, candY |-> 0, impactVy |-> 0, cand |-> ZeroVec,
   props |-> PropPoints(Trig(ZeroVec), ZeroVec), from |-> ZeroVec,
   vcrash |-> ZeroVec, stats |-> << >>, reached |-> 0, reachedTotal |-> 0,
   th0 |-> 0]

\* The state after construction (the useRef initial values, App's useState).
Constructed ==
  [position |-> Vec(0, 2000, 0), velocity |-> ZeroVec, rotation |-> ZeroVec,
   throttle |-> 0, isCrashed |-> FALSE, lastStatsUpdate |-> 0, keys |-> {},
   now |-> 0, objectivePos |-> NoObjective, missionComplete |-> FALSE,
   calls |-> << >>]

\* A session 5 s in, its last gated snapshot sent 50 ms ago.
InFlight(p, v, r, th, k, obj) ==
  [position |-> p, velocity |-> v, rotation |-> r, throttle |-> th,
   isCrashed |-> FALSE, lastStatsUpdate |-> 4950, keys |-> k, now |-> 5000,
   objectivePos |-> obj, missionComplete |-> FALSE,
   calls |-> << Call(FlyingStats(th, -1), 4950, TRUE) >>]

\* A session that crashed 50 ms ago, in a frame 150 ms after its last gated
\* snapshot.
Wrecked(p, v, r, th, obj) ==
  [position |-> p, velocity |-> v, rotation |-> r, throttle |-> th,
   isCrashed |-> TRUE, lastStatsUpdate |-> 4800, keys |-> {}, now |-> 5000,
   objectivePos |-> obj, missionComplete |-> FALSE,
   calls |-> << Call(FlyingStats(th, -1), 4800, TRUE),
                Call(CrashedStats, 4950, FALSE) >>]

\* Sessions the checks start from: the constructed one, and sessions already
\* under way, each a state flight reaches (altitude >= 0.5 and no check point
\* inside an obstacle while flying, tilt within MAX_TILT, throttle in [0,1],
\* no horizontal velocity once crashed).
Scenarios ==
  { Constructed,
    \* landed and at rest
    InFlight(Vec(0, 500, 0), ZeroVec, ZeroVec, 0, {}, NoObjective),
    \* on the ground, tilting under S + A with the takeoff assist
    InFlight(Vec(0, 500, 0), ZeroVec, Vec(180, 0, 180), 135, {"KeyS", "KeyA"},
             NoObjective),
    \* a fast descent from altitude 5, throttle 0, level
    InFlight(Vec(0, 5000, 0), Vec(0, -50000, 0), ZeroVec, 0, {}, NoObjective),
    \* hovering toward the building's west wall
    InFlight(Vec(18700, 3000, 0), Vec(10000, 0, 0), ZeroVec, 400, {}, NoObjective),
    \* climbing toward the building's west wall just above the ground
    InFlight(Vec(19800, 600, 0), Vec(6000, 6000, 0), ZeroVec, 600, {}, NoObjective),
    \* landed beside the building's west wall with some roll left, after the
    \* auto-level of the landing frame
    InFlight(Vec(20100, 500, 0), ZeroVec, Vec(0, 0, 210), 0, {}, NoObjective),
    \* hovering toward the tree, below and above its height
    InFlight(Vec(0, 3900, 13500), Vec(0, 0, 8000), ZeroVec, 400, {}, NoObjective),
    InFlight(Vec(0, 4300, 13500), Vec(0, 0, 8000), ZeroVec, 400, {}, NoObjective),
    \* climbing toward the objective above the building, 4.2 away
    InFlight(Vec(24000, 8800, 0), Vec(0, 3000, 0), ZeroVec, 400, {},
             TargetOf(Building)),
    \* cruising, tilted and yawed, throttle nearly full
    InFlight(Vec(0, 10000, 0), Vec(3000, 1000, -2000), Vec(300, 1000, -200), 950,
             {"ArrowUp"}, NoObjective),
    \* crashed above the tree, within 4.0 of the objective there, falling
    Wrecked(Vec(0, 6000, 16000), Vec(0, -3000, 0), Vec(200, 0, -100), 300,
            TargetOf(Tree)),
    \* crashed, about to reach the floor
    Wrecked(Vec(5000, 300, 5000), Vec(0, -4000, 0), ZeroVec, 0, NoObjective) }

\* The session s as the state of the model, no frame and no key event of the
\* check having run.
StartsAs(s) ==
  /\ position = s.position
  /\ velocity = s.velocity
  /\ rotation = s.rotation
  /\ throttle = s.throttle
  /\ isCrashed = s.isCrashed
  /\ lastStatsUpdate = s.lastStatsUpdate
  /\ keys = s.keys
  /\ now = s.now
  /\ objectivePos = s.objectivePos
  /\ missionComplete = s.missionComplete
  /\ calls = s.calls
  /\ fr = NoFrame
  /\ nframes = 0
  /\ nkeys = 0
  \* the panel starts open and idle; a session with an objective has had its
  \* mission started, which closed the panel
  /\ loading = FALSE
  /\ isOpen = ~s.objectivePos.set
  /\ pending = << >>
  /\ activeMission = IF s.objectivePos.set THEN FallbackMission ELSE NoMission
  /\ nrequests = IF s.objectivePos.set THEN 1 ELSE 0
  /\ nstarts = IF s.objectivePos.set THEN 1 ELSE 0

Init == \E s \in Scenarios : StartsAs(s)

Next ==
  \/ \E c \in KeyCodes : KeyDown(c)
  \/ \E c \in KeyCodes : KeyUp(c)
  \/ \E delta \in Deltas : Frame(delta)

Spec == Init /\ [][Next]_vars

\* ------------------------------------------- sessions with a corrupted number
\* The sessions the NaN guard is written for: a cruising and a crashed session
\* in which one component of position or of velocity has become NaN.
Corrupted(v, c) == [v EXCEPT ![c] = NaN]

CorruptScenarios ==
  LET fly == InFlight(Vec(0, 10000, 0), Vec(3000, 1000, -2000), Vec(300, 1000, -200),
                      950, {"ArrowUp"}, TargetOf(Tree))
      wreck == Wrecked(Vec(5000, 300, 5000), Vec(0, -4000, 0), ZeroVec, 0, NoObjective)
  IN  { [s EXCEPT !.position = Corrupted(s.position, c)] :
          s \in {fly, wreck}, c \in {"x", "y", "z"} }
      \cup
      { [s EXCEPT !.velocity = Corrupted(s.velocity, c)] :
          s \in {fly, wreck}, c \in {"x", "y", "z"} }

InitCorrupt == \E s \in CorruptScenarios : StartsAs(s)

SpecCorrupt == InitCorrupt /\ [][Next]_vars

\* ------------------------------------------------------ mission control
\* The flight state, which the panel's handlers leave alone.
flightVars == << position, velocity, rotation, throttle, isCrashed,
                 lastStatsUpdate, keys, now, fr, calls, nframes, nkeys >>

\* The sequence without its i-th element.
RemoveAt(q, i) == [j \in 1..(Len(q) - 1) |-> IF j < i THEN q[j] ELSE q[j + 1]]

\* Variant of DifficultyEnabled without disabled={loading}.
DifficultyEnabled_Always == isOpen

\* A difficulty button can be clicked: the open panel renders it, with
\* disabled={loading}.
DifficultyEnabled == isOpen /\ ~loading

\* handleGenerate up to its await: setLoading(true), generateMission(level).
handleGenerate(level) ==
  /\ DifficultyEnabled
  /\ nrequests < MaxRequests
  /\ loading' = TRUE
  /\ pending' = Append(pending, level)
  /\ nrequests' = nrequests + 1
  /\ UNCHANGED << isOpen, activeMission, nstarts, objectivePos, missionComplete >>
  /\ UNCHANGED flightVars

\* App.handleMissionStart, called as onMissionStart: the objective above a
\* random obstacle, the mission active, missionComplete reset.
handleMissionStart(mission, o) ==
  /\ objectivePos' = TargetOf(obstacles[o])
  /\ activeMission' = mission
  /\ missionComplete' = FALSE

\* handleGenerate from its await on, when the i-th outstanding generateMission
\* settles: it always resolves, with the parsed mission or, from its catch,
\* the fallback.  onMissionStart(mission), setIsOpen(false), and in the
\* finally setLoading(false).
MissionSettles(i, mission, o) ==
  /\ i \in 1..Len(pending)
  /\ handleMissionStart(mission, o)
  /\ nstarts' = nstarts + 1
  /\ isOpen' = FALSE
  /\ loading' = FALSE
  /\ pending' = RemoveAt(pending, i)
  /\ UNCHANGED nrequests
  /\ UNCHANGED flightVars

\* 'Free Flight Mode': setIsOpen(false)
FreeFlight ==
  /\ isOpen
  /\ isOpen' = FALSE
  /\ UNCHANGED << loading, pending, activeMission, nrequests, nstarts,
                  objectivePos, missionComplete >>
  /\ UNCHANGED flightVars

\* The round button of the closed panel: setIsOpen(true)
Reopen ==
  /\ ~isOpen
  /\ isOpen' = TRUE
  /\ UNCHANGED << loading, pending, activeMission, nrequests, nstarts,
                  objectivePos, missionComplete >>
  /\ UNCHANGED flightVars

\* The panel over a session that has just been constructed or has completed a
\* mission.
MissionScenarios ==
  { Constructed,
    [InFlight(Vec(24000, 8800, 0), Vec(0, 3000, 0), ZeroVec, 400, {},
              TargetOf(Building)) EXCEPT !.missionComplete = TRUE] }

InitMission == \E s \in MissionScenarios : StartsAs(s)

NextMission ==
  \/ \E level \in Levels : handleGenerate(level)
  \/ \E i \in 1..MaxRequests, d \in Levels, o \in 1..Len(obstacles) :
       MissionSettles(i, ParsedMission(d), o)
  \/ \E i \in 1..MaxRequests, o \in 1..Len(obstacles) :
       MissionSettles(i, FallbackMission, o)
  \/ FreeFlight
  \/ Reopen

SpecMission == InitMission /\ [][NextMission]_vars

\* ================================================================ claims
\* A step of the behaviour that is a run of the frame callback, and the
\* elapsed time it used.
FrameStep == nframes' = nframes + 1
StepDt == IF now' - now < 100 THEN now' - now ELSE 100

\* The five points of the last frame's obstacle check, with their radii.
LastPoints ==
  { [point |-> fr.cand, radius |-> 500] } \cup
  { [point |-> fr.props[i], radius |-> 150] : i \in 1..4 }

\* Strictly inside the building's box inflated by r on all three axes.
InInflatedBox(p, r) ==
  /\ Abs(p.x - Building.position.x) < Building.size.x \div 2 + r
  /\ Abs(p.y - Building.position.y) < Building.size.y \div 2 + r
  /\ Abs(p.z - Building.position.z) < Building.size.z \div 2 + r

\* Horizontally closer to the tree's centre than 1.5 + r and below its height.
InTreeCylinder(p, r) ==
  /\ (p.x - Tree.position.x) * (p.x - Tree.position.x)
       + (p.z - Tree.position.z) * (p.z - Tree.position.z) < (1500 + r) * (1500 + r)
  /\ p.y < Tree.size.y

\* Closer to the objective than the capture radius 4.0 (exact Euclidean).
WithinCapture(p) ==
  /\ objectivePos.set
  /\ (p.x - objectivePos.x) * (p.x - objectivePos.x)
       + (p.y - objectivePos.y) * (p.y - objectivePos.y)
       + (p.z - objectivePos.z) * (p.z - objectivePos.z) < 4000 * 4000

\* C1: after every frame, for any key states and elapsed times, throttle is
\* in [0, 1], also when the takeoff assist raises it.
C1_ThrottleInRange == throttle >= 0 /\ throttle <= Unit

\* C1 witness: a frame in which the takeoff assist raised the throttle
\* (a tilt key held, altitude below 1.0, no throttle key).
C1_Witness ==
  /\ fr.n > 0 /\ ~fr.wasCrashed /\ fr.dt > 0
  /\ isMovingInput(fr.keys) /\ ~ThrottleUp(fr.keys)
  /\ fr.from.y < 1000 /\ fr.th0 < 400
  /\ throttle > fr.th0

\* C2: the flight status is a one-way latch: a step taken while Crashed
\* leaves the status Crashed.
C2_CrashLatch == [][isCrashed => isCrashed']_vars

\* C2 witness: a frame ran while crashed and the wreck has come to rest.
C2_Witness == fr.n > 0 /\ fr.wasCrashed /\ isCrashed /\ velocity = ZeroVec /\ fr.dt > 0

\* C3 as stated: the objective-reached signal is edge-triggered, invoked
\* once over a session and not again on later steps within 4.0.
C3_EdgeTriggered == fr.reachedTotal <= 1

\* C3 amended: the signal is level-triggered: a frame invokes it (once) exactly
\* when it committed a position closer than 4.0 to the set objective, on every
\* such frame; its effect is once only: missionComplete holds after the first.
C3_LevelTriggered ==
  fr.n > 0 =>
    /\ fr.reached = IF ~fr.wasCrashed /\ ~fr.transition /\ WithinCapture(position)
                    THEN 1 ELSE 0
    /\ fr.reachedTotal > 0 => missionComplete

\* C3 witness: two frames in a row invoked the signal.
C3_Witness == fr.reachedTotal >= 2 /\ fr.reached = 1 /\ missionComplete

\* C4: a flying frame whose candidate altitude is below 0.5 with a vertical
\* speed at ground contact above 10 ends Crashed.
C4_HardLandingCrashes ==
  (fr.n > 0 /\ ~fr.wasCrashed /\ fr.candY < 500 /\ Abs(fr.impactVy) > 10000)
    => isCrashed

\* C5: a flying frame whose candidate centre is strictly inside the building's
\* box inflated by DRONE_RADIUS (no ground or propeller crash flagged first)
\* ends Crashed, with the stored position outside that inflated box.
C5_BuildingCollision ==
  (fr.n > 0 /\ ~fr.wasCrashed /\ fr.flag \notin {"hard", "prop"}
     /\ InInflatedBox(fr.cand, 500))
    => (isCrashed /\ fr.transition /\ ~InInflatedBox(position, 500))

\* C5 witness: the candidate centre was inside the inflated box.
C5_Witness ==
  /\ fr.n > 0 /\ ~fr.wasCrashed /\ fr.flag = "obstacle"
  /\ InInflatedBox(fr.cand, 500) /\ isCrashed

\* A frame with elapsed time 0 that follows a frame with elapsed time 0, the
\* key states being the same.
ZeroDtRepeat ==
  FrameStep /\ now' = now /\ fr.n > 0 /\ fr.delta = 0 /\ fr.keys = keys

\* C6 as stated: two consecutive frames with elapsed time 0 and the same keys:
\* the second leaves position, velocity, attitude, throttle and status as the
\* first left them.
C6_ZeroDtIdempotent ==
  [][ZeroDtRepeat =>
       /\ position' = position /\ velocity' = velocity /\ rotation' = rotation
       /\ throttle' = throttle /\ isCrashed' = isCrashed]_vars

\* C6 amended: the second frame leaves position, attitude, throttle and status
\* as the first left them; the velocity it leaves unchanged only when Crashed:
\* a flying frame multiplies it by DRAG whatever the elapsed time.
C6_ZeroDtDragOnly ==
  [][ZeroDtRepeat =>
       /\ position' = position /\ rotation' = rotation
       /\ throttle' = throttle /\ isCrashed' = isCrashed
       /\ velocity' = IF isCrashed THEN velocity
                      ELSE Vec(Mul(velocity.x, 980), Mul(velocity.y, 980),
                               Mul(velocity.z, 980))]_vars

\* C6 witness: two flying frames with elapsed time 0 and the same keys have
\* run, the drone moving.
C6_Witness ==
  /\ fr.n >= 2 /\ fr.delta = 0 /\ fr.prevDelta = 0 /\ fr.prevKeys = fr.keys
  /\ ~isCrashed /\ velocity # ZeroVec

\* C7 as stated: at most one onUpdateStats call per frame, and any two
\* consecutive calls of the session, the crash transition's included, are
\* more than 0.1 s apart.
C7_AllCallsSpaced ==
  /\ Len(fr.stats) <= 1
  /\ \A i \in 1..(Len(calls) - 1) : calls[i + 1].at - calls[i].at > 100

\* C7 amended: at most one call per frame; the gated calls (all but the crash
\* transition's) are pairwise more than 0.1 s apart; the crash transition's
\* call is immediate, ungated, and reports CRASHED.
C7_GatedCallsSpaced ==
  /\ Len(fr.stats) <= 1
  /\ \A i \in 1..Len(calls) : \A j \in 1..Len(calls) :
       (i < j /\ calls[i].gated /\ calls[j].gated) => calls[j].at - calls[i].at > 100
  /\ \A i \in 1..Len(calls) : ~calls[i].gated => calls[i].stats.status = "CRASHED"
  /\ (fr.n > 0 /\ fr.transition) => (Len(fr.stats) = 1 /\ ~fr.stats[1].gated)

\* C7 witness: a crash transition called within 0.1 s of the snapshot before
\* it, and a gated call followed in the next frame.
C7_Witness ==
  /\ fr.n >= 2 /\ Len(calls) >= 3
  /\ calls[Len(calls)].gated /\ fr.stats = << calls[Len(calls)] >>
  /\ ~calls[Len(calls) - 1].gated
  /\ calls[Len(calls) - 1].at - calls[Len(calls) - 2].at <= 100

\* C8: a frame taken while Crashed applies only the fall rule: the vertical
\* velocity decreases by GRAVITY*dt, the position advances by velocity*dt, an
\* altitude below 0.2 becomes 0.2 with the velocity zeroed; throttle and
\* attitude are unchanged, and nothing else (keys, obstacles, objective)
\* enters the result.
C8_CrashedFallOnly ==
  [][(FrameStep /\ isCrashed) =>
       LET vy == velocity.y - Mul(25000, StepDt)
           px == position.x + Mul(velocity.x, StepDt)
           py == position.y + Mul(vy, StepDt)
           pz == position.z + Mul(velocity.z, StepDt)
       IN  /\ throttle' = throttle /\ rotation' = rotation /\ isCrashed'
           /\ missionComplete' = missionComplete
           /\ IF py < 200
              THEN position' = Vec(px, 200, pz) /\ velocity' = ZeroVec
              ELSE position' = Vec(px, py, pz)
                   /\ velocity' = Vec(velocity.x, vy, velocity.z)]_vars

\* C8 witness: a crashed frame with elapsed time stopped the wreck on the floor.
C8_Witness ==
  fr.n > 0 /\ fr.wasCrashed /\ fr.dt > 0 /\ position.y = 200 /\ velocity = ZeroVec

\* C9: a flying frame in which a check point (centre, radius 0.5, or propeller
\* tip, radius 0.15) is horizontally closer to the tree's centre than 1.5 plus
\* its radius and below the tree's height ends Crashed; when the frame reaches
\* the obstacle check and every point that close is at or above the tree's
\* height (and no point is in the building), the frame does not crash.
C9_TreeCollision ==
  (fr.n > 0 /\ ~fr.wasCrashed) =>
    /\ (\E c \in LastPoints : InTreeCylinder(c.point, c.radius))
         => (isCrashed /\ fr.transition)
    /\ (/\ fr.flag \notin {"hard", "prop"}
        /\ \A c \in LastPoints :
             ~InTreeCylinder(c.point, c.radius) /\ ~InInflatedBox(c.point, c.radius))
         => (~isCrashed /\ fr.flag = "none")

\* C9 witness: a check point was inside the tree's cylinder and the frame
\* crashed.
C9_Witness ==
  /\ fr.n > 0 /\ ~fr.wasCrashed /\ fr.flag = "obstacle" /\ isCrashed
  /\ \E c \in LastPoints : InTreeCylinder(c.point, c.radius)

\* C10 as stated: every flying frame whose candidate altitude is below 0.5
\* ends with altitude >= 0.5, vertical velocity 0 and status Flying.
C10_GroundClampAlways ==
  (fr.n > 0 /\ ~fr.wasCrashed /\ fr.candY < 500)
    => (position.y >= 500 /\ velocity.y = 0 /\ ~isCrashed)

\* C10 amended: a flying frame whose candidate altitude is below 0.5 and in
\* which no propeller tip is below 0.1 and no check point hits an obstacle (as
\* for a level drone away from obstacles) ends with altitude 0.5, vertical
\* velocity 0 and status Flying; with a propeller tip below 0.1 or an obstacle
\* hit it ends Crashed.
C10_GroundClamp ==
  (fr.n > 0 /\ ~fr.wasCrashed /\ fr.candY < 500) =>
    IF fr.flag \in {"prop", "obstacle"}
    THEN isCrashed
    ELSE position.y = 500 /\ velocity.y = 0 /\ ~isCrashed

\* C10 witness: a level drone touched the ground in the last frame.
C10_Witness ==
  /\ fr.n > 0 /\ ~fr.wasCrashed /\ fr.candY < 500 /\ fr.flag = "none"
  /\ rotation.x = 0 /\ rotation.z = 0 /\ fr.dt > 0
  /\ position.y = 500 /\ ~isCrashed

\* C11: the elapsed time a frame uses is min(delta, 0.1): at most 0.1 s
\* whatever delta is supplied, and delta itself when delta <= 0.1. Observed on
\* what the frame integrates with it: the yaw of a flying frame and the
\* gravity of a crashed frame.
C11_DtClamped ==
  [][FrameStep =>
       /\ StepDt <= 100
       /\ (now' - now <= 100) => StepDt = now' - now
       /\ fr'.dt = StepDt
       /\ ~isCrashed =>
            rotation'.y = rotation.y
                          + (IF YawLeft(keys) THEN Mul(2500, StepDt) ELSE 0)
                          - (IF YawRight(keys) THEN Mul(2500, StepDt) ELSE 0)
       /\ (isCrashed /\ velocity' # ZeroVec) =>
            velocity'.y = velocity.y - Mul(25000, StepDt)]_vars

\* C11 witness: a flying frame with a yaw key held was given a delta above
\* 0.1 s and used 0.1 s.
C11_Witness ==
  /\ fr.n > 0 /\ ~fr.wasCrashed /\ fr.delta > 100 /\ fr.dt = 100
  /\ YawLeft(fr.keys) /\ rotation.y # 0

\* No component of the vector is NaN.
NoNaN(v) == v.x # NaN /\ v.y # NaN /\ v.z # NaN

\* C12: whatever component of position or velocity was NaN at the start of a
\* frame, after the frame no component of position or velocity is NaN.
C12_SelfHealing == fr.n > 0 => (NoNaN(position) /\ NoNaN(velocity))

\* The tilt target of an axis as C13 states it: zero with neither or both of
\* the opposing keys, the pressed key's angle otherwise.
CancellingTarget(neg, pos, k) ==
  IF (neg \in k) = (pos \in k) THEN 0 ELSE IF pos \in k THEN 600 ELSE -600

\* The tilt target of an axis when the key tested last wins.
LastWinsTarget(neg, pos, k) ==
  IF pos \in k THEN 600 ELSE IF neg \in k THEN -600 ELSE 0

\* A flying frame whose pitch and roll are only smoothed toward the targets
\* (no auto-level: a directional key is held or the ground is not touched).
TiltStep == FrameStep /\ ~isCrashed /\ (isMovingInput(keys) \/ ~fr'.contact)

\* C13 as stated: the pitch (roll) of a flying frame is smoothed toward zero
\* when neither or both of W/S (D/A) are pressed and toward the pressed key's
\* angle otherwise.
C13_OpposingKeysCancel ==
  [][TiltStep =>
       /\ rotation'.x = lerp(rotation.x, CancellingTarget("KeyW", "KeyS", keys),
                             Mul(StepDt, 3000))
       /\ rotation'.z = lerp(rotation.z, CancellingTarget("KeyD", "KeyA", keys),
                             Mul(StepDt, 3000))]_vars

\* C13 amended: the target is zero when neither key of the axis is pressed, the
\* pressed key's angle when one is, and with both pressed the angle of the key
\* tested last: +0.6 of S (back) for pitch, +0.6 of A (left) for roll.
C13_LastKeyWins ==
  [][TiltStep =>
       /\ rotation'.x = lerp(rotation.x, LastWinsTarget("KeyW", "KeyS", keys),
                             Mul(StepDt, 3000))
       /\ rotation'.z = lerp(rotation.z, LastWinsTarget("KeyD", "KeyA", keys),
                             Mul(StepDt, 3000))]_vars

\* C13 witness: a flying frame with elapsed time ran with both W and S held
\* and pitched the drone up further.
C13_Witness ==
  /\ fr.n > 0 /\ ~fr.wasCrashed /\ fr.dt > 0
  /\ {"KeyW", "KeyS"} \subseteq fr.keys
  /\ rotation.x > 180

\* The displacement of the stored position in the last frame, taken backwards
\* (from the stored position to the position before the frame), and the L1
\* norm used to bound rounding.
BackStep == Vec(fr.from.x - position.x, fr.from.y - position.y, fr.from.z - position.z)
Norm1(v) == Abs(v.x) + Abs(v.y) + Abs(v.z)

\* d has length 1.5 and the direction of v, up to the rounding of the
\* arithmetic: |d| within 0.01 of 1.5, d.v > 0 and d x v = 0.
IsPushbackAlong(d, v) ==
  /\ d.x * d.x + d.y * d.y + d.z * d.z >= 1490 * 1490
  /\ d.x * d.x + d.y * d.y + d.z * d.z <= 1510 * 1510
  /\ d.x * v.x + d.y * v.y + d.z * v.z > 0
  /\ Abs(d.y * v.z - d.z * v.y) <= 3 * Norm1(v)
  /\ Abs(d.z * v.x - d.x * v.z) <= 3 * Norm1(v)
  /\ Abs(d.x * v.y - d.y * v.x) <= 3 * Norm1(v)

\* C14: a frame that turns Flying into Crashed stores the position it started
\* from displaced by 1.5 against the normalised pre-crash velocity, or raised
\* by 0.5 when the squared pre-crash speed is at most 0.1; the velocity is
\* zero after it and the candidate position is not what is stored.
C14_PushbackOnCrash ==
  (fr.n > 0 /\ ~fr.wasCrashed /\ isCrashed) =>
    /\ velocity = ZeroVec
    /\ position # fr.cand
    /\ IF fr.vcrash.x * fr.vcrash.x + fr.vcrash.y * fr.vcrash.y
            + fr.vcrash.z * fr.vcrash.z > 100 * 1000
       THEN IsPushbackAlong(BackStep, fr.vcrash)
       ELSE position = Vec(fr.from.x, fr.from.y + 500, fr.from.z)

\* C14 witness: a crash at speed, the position pushed back.
C14_Witness ==
  /\ fr.n > 0 /\ ~fr.wasCrashed /\ isCrashed /\ fr.transition
  /\ Norm1(fr.vcrash) > 1000
  /\ position # fr.from

\* C15: a snapshot emitted by a frame that ends Crashed (the transition frame
\* included) reports throttle 0, battery 0 and status CRASHED; one emitted by
\* a frame that ends Flying reports FLYING and the current throttle; no
\* snapshot of the session reports LANDED.
C15_SnapshotStatus ==
  /\ \A i \in 1..Len(calls) : calls[i].stats.status \in {"FLYING", "CRASHED"}
  /\ (fr.n > 0 /\ Len(fr.stats) > 0) =>
       \A i \in 1..Len(fr.stats) :
         IF isCrashed
         THEN /\ fr.stats[i].stats.status = "CRASHED"
              /\ fr.stats[i].stats.throttle = 0
              /\ fr.stats[i].stats.battery = 0
         ELSE /\ fr.stats[i].stats.status = "FLYING"
              /\ fr.stats[i].stats.throttle = throttle

\* C15 witness: the session has emitted a FLYING snapshot with a positive
\* throttle in one frame and the CRASHED snapshot of the transition in the
\* next, the throttle ref still positive.
C15_Witness ==
  /\ fr.n >= 2 /\ fr.transition /\ Len(fr.stats) = 1 /\ throttle > 0
  /\ Len(calls) >= 2
  /\ calls[Len(calls)].stats.status = "CRASHED"
  /\ calls[Len(calls) - 1].stats.status = "FLYING"
  /\ calls[Len(calls) - 1].at > 5000

\* C16: a flying frame in which the ground check flagged no crash and one of
\* the four propeller tips (the body offsets rotated by the attitude and moved
\* to the ground-clamped candidate) is below 0.1 ends Crashed, flagged by the
\* propeller check, the centre being at or above 0.5; with no tip below 0.1
\* the propeller check flags nothing.
C16_PropGroundStrike ==
  (fr.n > 0 /\ ~fr.wasCrashed /\ fr.flag # "hard") =>
    /\ fr.cand.y >= 500
    /\ (isMovingInput(fr.keys) \/ ~fr.contact) =>
         \A i \in 1..4 :
           fr.props[i] = VAdd(ApplyQuaternion(PROP_OFFSETS[i], Trig(rotation)), fr.cand)
    /\ IF \E i \in 1..4 : fr.props[i].y < 100
       THEN isCrashed /\ fr.transition /\ fr.flag = "prop"
       ELSE fr.flag # "prop"

\* C16 witness: a tilted drone on the ground struck it with a propeller, the
\* centre at the ground clearance.
C16_Witness ==
  /\ fr.n > 0 /\ ~fr.wasCrashed /\ fr.flag = "prop" /\ isCrashed
  /\ fr.cand.y >= 500
  /\ \E i \in 1..4 : fr.props[i].y < 100

\* C17: after every frame the stored altitude is at least 0.5 while Flying and
\* at least 0.2 once Crashed, the frame of the crash transition included.
C17_AltitudeFloor ==
  IF isCrashed THEN position.y >= 200 ELSE position.y >= 500

\* C18: the frame in which the status becomes Crashed emits a CRASHED snapshot;
\* after a CRASHED snapshot no FLYING snapshot follows in the session, and a
\* frame that ends Crashed emits no objective-reached signal and no FLYING
\* snapshot, also when the wreck is within 4.0 of the objective.
C18_OutputsAfterCrash ==
  /\ (fr.n > 0 /\ ~fr.wasCrashed /\ isCrashed) =>
       (Len(fr.stats) = 1 /\ fr.stats[1].stats.status = "CRASHED")
  /\ (fr.n > 0 /\ isCrashed) =>
       /\ fr.reached = 0
       /\ \A i \in 1..Len(fr.stats) : fr.stats[i].stats.status = "CRASHED"
  /\ \A i \in 1..Len(calls) : \A j \in 1..Len(calls) :
       (i < j /\ calls[i].stats.status = "CRASHED")
         => calls[j].stats.status = "CRASHED"

\* C18 witness: a frame ran while Crashed with the wreck within 4.0 of the
\* objective, emitted a CRASHED snapshot and no signal.
C18_Witness ==
  /\ fr.n > 0 /\ fr.wasCrashed /\ WithinCapture(position)
  /\ Len(fr.stats) = 1 /\ fr.stats[1].stats.status = "CRASHED"
  /\ fr.reached = 0 /\ ~missionComplete

\* C19: mission generation is single-flight: at most one generateMission call
\* is outstanding at a time, whatever the order of difficulty clicks, Free
\* Flight, reopening and settling; loading is true exactly while one is
\* outstanding, so it is false again once the request has settled; and every
\* request that has settled has made exactly one onMissionStart call.
C19_SingleFlight ==
  /\ Len(pending) <= 1
  /\ loading = (Len(pending) = 1)
  /\ nstarts + Len(pending) = nrequests
  /\ (nstarts > 0 /\ ~loading) => activeMission # NoMission

\* C19 witness: a first request has settled and started its mission, the
\* panel was reopened and a second request is outstanding, the buttons
\* disabled.
C19_Witness ==
  /\ nrequests >= 2 /\ nstarts = nrequests - 1
  /\ loading /\ isOpen /\ Len(pending) = 1
  /\ activeMission # NoMission /\ objectivePos.set
====
